---- MODULE Spec2Model ----
(***************************************************************************)
(* Model of the pytorch-lightning-boilerplate template.                    *)
(*                                                                         *)
(*  - ProjectDataModule (src/src/datasets/project_dataset.py): the split   *)
(*    seed drawn at construction, setup(stage) that recomputes the split   *)
(*    with torch.utils.data.random_split and keeps part of it.             *)
(*  - run() / ModelTrainer (src/src/run.py, src/src/utils/trainer.py):     *)
(*    fit or load from a checkpoint, then test.                            *)
(*  - CLIConfig.get_config_dict / OutputManager.log_config and             *)
(*    OutputManager.process_plot (src/src/utils).                          *)
(*                                                                         *)
(* Two processes are modelled.  They stand for two ranks of a distributed  *)
(* run as well as for two successive runs of the program (a training run   *)
(* and a later run that re-loads its checkpoint): in both cases each       *)
(* process executes the script from the top with its own interpreter       *)
(* state.                                                                  *)
(***************************************************************************)
EXTENDS Integers, Sequences, FiniteSets, TLC

(***************************************************************************)
(* Bounds                                                                  *)
(***************************************************************************)
\* Largest dataset size enumerated exhaustively (the size 100 of the
\* end-to-end scenario is added to the enumeration below).
MaxLen == 10
\* Stands for int(1e12), the upper end of random.randint in __init__.
MaxSplitSeed == 2
\* Number of states of the interpreter-wide `random` module.
RandMod == 3
\* Largest number of CPU cores seen by os.sched_getaffinity / os.cpu_count.
MaxCpu == 2
\* Largest number of process_plot calls followed in one run.
MaxPlotCalls == 1
\* Largest number of evaluation loops (validation, test) run on one model.
MaxEvalRuns == 2

Procs == {"p1", "p2"}
DatasetSizes == 0..MaxLen
\* The end-to-end scenario: a dataset of 100 records
ScenarioSizes == {100}
\* Seeds handed to seed_everything by the tests (42 and 10).
GlobalSeeds == {42, 10}
Stages == {"fit", "test", "validate", "predict", "None"}

(***************************************************************************)
(* Optional[Subset]: None or a Subset holding a list of dataset indices.   *)
(***************************************************************************)
None == [isset |-> FALSE, indices |-> <<>>]
Subset(ix) == [isset |-> TRUE, indices |-> ix]
Range(s) == {s[i] : i \in 1..Len(s)}

(***************************************************************************)
(* The interpreter-wide `random` module: a state and a draw.  The real     *)
(* generator is a Mersenne twister; only "a deterministic function of the  *)
(* state, which each draw advances" is kept.                               *)
(***************************************************************************)
RandNext(r) == (r + 1) % RandMod
randint(r, lo, hi) == lo + (r % (hi - lo + 1))
seed_everything(s) == s % RandMod

(***************************************************************************)
(* torch.Generator and torch.randperm: a generator state, advanced by a    *)
(* full-period congruential step at each draw, and the Fisher-Yates        *)
(* shuffle that randperm runs on the CPU (for i < n-1: swap r[i] with      *)
(* r[i + z], z = draw % (n - i)).  The real generator is a Mersenne        *)
(* twister (CPU) or Philox (CUDA); only "a deterministic function of the   *)
(* seed, advanced by each draw" is kept.                                   *)
(* The loop over i is unfolded by halves and each half is evaluated before *)
(* the next one starts, so that shuffling 100 indices nests a few calls.   *)
(***************************************************************************)
GenNext(g) == (5 * g + 3) % 16
manual_seed(seed) == seed % 16

\* the list 0, 1, ..., n-1
Arange(n) == <<>> \o [k \in 1..n |-> k - 1]

Swap(r, i, j) == [r EXCEPT ![i] = r[j], ![j] = r[i]]

\* the element of a one-element set
TheOne(S) == CHOOSE v \in S : TRUE

\* step i of the shuffle (i counted from 0) on the list st.r with the
\* generator in state st.g
ShuffleStep(st, i, n) ==
    LET g2 == GenNext(st.g)
        z == g2 % (n - i)
    IN [r |-> Swap(st.r, i + 1, i + 1 + z), g |-> g2]

RECURSIVE FisherYates(_, _, _, _)
\* steps lo..hi of the shuffle, in order
FisherYates(st, lo, hi, n) ==
    IF lo > hi THEN st
    ELSE IF lo = hi THEN ShuffleStep(st, lo, n)
    ELSE LET mid == (lo + hi) \div 2
         IN TheOne({FisherYates(left, mid + 1, hi, n) :
                       left \in {FisherYates(st, lo, mid, n)}})

randperm(n, g) ==
    TheOne({FisherYates(st, 0, n - 2, n).r : st \in {[r |-> Arange(n), g |-> g]}})

(***************************************************************************)
(* torch.utils.data.random_split(dataset, fractions, generator).           *)
(* Fractions are given in tenths: <<7, 2, 1>> is [0.7, 0.2, 0.1].          *)
(* Each length is floor(len * frac); the remainder is then handed out one  *)
(* by one, round-robin from the first subset.  (In IEEE doubles            *)
(* floor(n * 0.7) is one less than floor(7n/10) for some multiples of 10,  *)
(* e.g. n = 90; the remainder is then 1 and goes back to the first subset, *)
(* so the lengths equal the ones computed here with exact arithmetic.)     *)
(***************************************************************************)
FracDen == 10
SplitFractions == <<7, 2, 1>>

FloorLengths(n, fracs) == [i \in 1..Len(fracs) |-> (n * fracs[i]) \div FracDen]

RECURSIVE SumSeq(_)
SumSeq(s) == IF s = <<>> THEN 0 ELSE s[1] + SumSeq(Tail(s))

RECURSIVE RoundRobin(_, _, _)
\* for i in range(remainder): lengths[i % len(lengths)] += 1
RoundRobin(lengths, i, remainder) ==
    IF i >= remainder THEN lengths
    ELSE LET k == (i % Len(lengths)) + 1
         IN RoundRobin([lengths EXCEPT ![k] = @ + 1], i + 1, remainder)

\* Variant: the floors only, the remainder is dropped
SubsetLengths_floors(n, fracs) == FloorLengths(n, fracs)

\* Variant: the whole remainder goes to the last subset
SubsetLengths_last(n, fracs) ==
    LET fl == FloorLengths(n, fracs)
    IN [fl EXCEPT ![Len(fl)] = @ + (n - SumSeq(fl))]

SubsetLengths(n, fracs) ==
    LET fl == FloorLengths(n, fracs)
    IN RoundRobin(fl, 0, n - SumSeq(fl))

\* offset = lengths[1] + ... + lengths[k]
Offset(lengths, k) == SumSeq(SubSeq(lengths, 1, k))

random_split(n, fracs, g) ==
    LET lengths == SubsetLengths(n, fracs)
        indices == randperm(SumSeq(lengths), g)
    IN [k \in 1..Len(lengths) |->
          Subset(SubSeq(indices, Offset(lengths, k) - lengths[k] + 1, Offset(lengths, k)))]

\* random_split(dataset, lengths) with explicit lengths and the default
\* generator: lengths that sum to 1 are read as fractions; other lengths have
\* to sum to len(dataset), or ValueError is raised
random_split_lengths(n, lengths, g) ==
    IF SumSeq(lengths) = 1
    THEN [raised |-> FALSE,
          subsets |-> random_split(n, [i \in 1..Len(lengths) |-> lengths[i] * FracDen], g)]
    ELSE IF SumSeq(lengths) # n
    THEN [raised |-> TRUE, subsets |-> <<>>]
    ELSE [raised |-> FALSE,
          subsets |-> LET indices == randperm(n, g)
                      IN  [k \in 1..Len(lengths) |->
                             Subset(SubSeq(indices, Offset(lengths, k) - lengths[k] + 1,
                                           Offset(lengths, k)))]]

(***************************************************************************)
(* State                                                                   *)
(***************************************************************************)
VARIABLES
    dataset_len,      \* len(dataset) of the dataset cached by OpenML
    pc,               \* position of each process in run()
    py_random,        \* state of each process's global `random` module
    dm,               \* the ProjectDataModule of each process
    load_model_path,  \* ModelTrainer.load_model_path of each process
    model,            \* the model of each process and the records it was fitted on
    checkpoint,       \* the checkpoint file written by trainer.fit
    test_run,         \* the records trainer.test evaluated in each process
    history,          \* what each process has called so far in run()
    split_log,        \* every split computed so far by setup: (len, seed, subsets)
    cli_config,       \* CLIConfig.config.as_dict() of each process
    out,              \* the OutputManager of each process and what its destinations received
    metrics           \* the metric objects of each process's model and what was read from them

dmVars == <<dataset_len, pc, py_random, dm, load_model_path, model,
            checkpoint, test_run, history, split_log>>
outVars == <<cli_config, out>>
mVars == <<metrics>>
vars == <<dmVars, outVars, mVars>>

\* The load_model_path argument of ModelTrainer: None or a text, kept as its
\* characters
NoPath == [none |-> TRUE, text |-> <<>>]
PathText(text) == [none |-> FALSE, text |-> text]
CkptPath == PathText(<<"m", ".", "c", "k", "p", "t">>)

\* Nothing called yet: the state of `random` when the data module was built,
\* the calls of trainer.fit and trainer.test, the model handed to
\* trainer.test, whether prepare_data was called
NoHistory ==
    [random_at_init |-> 0, fits |-> 0, tests |-> 0, tested |-> "none",
     prepared |-> FALSE]

\* ProjectDataModule before __init__ has run
NoDataModule ==
    [_split_seed |-> 0, _dataset_train |-> None, _dataset_test |-> None,
     _dataset_val |-> None, _nb_workers |-> 0, batch_size |-> 256,
     trainer |-> FALSE]

Ceil2(n) == (n + 1) \div 2

(***************************************************************************)
(* ProjectDataModule                                                       *)
(***************************************************************************)
\* Variant: the split seed is a constant of the program
DataModuleInit_constant(r) ==
    [_split_seed |-> 0,
     _dataset_train |-> None, _dataset_test |-> None, _dataset_val |-> None,
     _nb_workers |-> 0, batch_size |-> 256, trainer |-> FALSE]

\* __init__: the three subsets are None, the split seed is drawn from the
\* global `random` module, no worker, no trainer attached yet.
DataModuleInit(r) ==
    [_split_seed |-> randint(r, 0, MaxSplitSeed),
     _dataset_train |-> None, _dataset_test |-> None, _dataset_val |-> None,
     _nb_workers |-> 0, batch_size |-> 256, trainer |-> FALSE]

\* Variant: prepare_data keeps the dataset it downloaded as the train subset
prepare_data_keeping(d, n) == [d EXCEPT !._dataset_train = Subset(Arange(n))]

\* prepare_data: self.download_dataset(), whose result is dropped
prepare_data(d, n) == d

\* set_auto_nb_workers: nothing without a trainer, else half of the cores
set_auto_nb_workers(d, cpus) ==
    IF ~d.trainer THEN d ELSE [d EXCEPT !._nb_workers = Ceil2(cpus)]

\* Variant: the generator is seeded by a fresh draw of the global `random`
\* module at each call
SplitGenerator_redrawn(d, r) == manual_seed(randint(r, 0, MaxSplitSeed))

\* Generator().manual_seed(self._split_seed); r is the state of the global
\* `random` module, which the generator does not read.
SplitGenerator(d, r) == manual_seed(d._split_seed)

\* log_sets_info divides the three sizes by their sum
log_sets_info_raises(train_set, test_set, valid_set) ==
    Len(train_set.indices) + Len(test_set.indices) + Len(valid_set.indices) = 0

\* Variant: setup draws a new split seed after splitting
setup_reseed(d, stage, n, cpus, r) ==
    LET d1 == set_auto_nb_workers(d, cpus)
        split == random_split(n, SplitFractions, SplitGenerator(d1, r))
        raised == stage = "fit" /\ log_sets_info_raises(split[1], split[2], split[3])
        d2 == IF stage = "fit" /\ ~raised
              THEN [d1 EXCEPT !._dataset_train = split[1], !._dataset_val = split[3]]
              ELSE d1
        d3 == IF stage = "test" /\ ~raised
              THEN [d2 EXCEPT !._dataset_test = split[2]]
              ELSE d2
    IN [dm |-> [d3 EXCEPT !._split_seed = (@ + 1) % (MaxSplitSeed + 1)],
        raised |-> raised,
        split |-> [n |-> n, seed |-> d._split_seed,
                   train |-> split[1], test |-> split[2], val |-> split[3]]]

\* Variant: the split is unpacked as train, validation, test
setup_val_second(d, stage, n, cpus, r) ==
    LET d1 == set_auto_nb_workers(d, cpus)
        split == random_split(n, SplitFractions, SplitGenerator(d1, r))
        raised == stage = "fit" /\ log_sets_info_raises(split[1], split[3], split[2])
        d2 == IF stage = "fit" /\ ~raised
              THEN [d1 EXCEPT !._dataset_train = split[1], !._dataset_val = split[2]]
              ELSE d1
        d3 == IF stage = "test" /\ ~raised
              THEN [d2 EXCEPT !._dataset_test = split[3]]
              ELSE d2
    IN [dm |-> d3, raised |-> raised,
        split |-> [n |-> n, seed |-> d._split_seed,
                   train |-> split[1], test |-> split[3], val |-> split[2]]]

\* Variant: the fit stage stores the train subset only
setup_fit_train_only(d, stage, n, cpus, r) ==
    LET d1 == set_auto_nb_workers(d, cpus)
        split == random_split(n, SplitFractions, SplitGenerator(d1, r))
        raised == stage = "fit" /\ log_sets_info_raises(split[1], split[2], split[3])
        d2 == IF stage = "fit" /\ ~raised
              THEN [d1 EXCEPT !._dataset_train = split[1]]
              ELSE d1
        d3 == IF stage = "test" /\ ~raised
              THEN [d2 EXCEPT !._dataset_test = split[2]]
              ELSE d2
    IN [dm |-> d3, raised |-> raised,
        split |-> [n |-> n, seed |-> d._split_seed,
                   train |-> split[1], test |-> split[2], val |-> split[3]]]

\* Variant: the fit stage stores the three subsets
setup_fit_all(d, stage, n, cpus, r) ==
    LET d1 == set_auto_nb_workers(d, cpus)
        split == random_split(n, SplitFractions, SplitGenerator(d1, r))
        raised == stage = "fit" /\ log_sets_info_raises(split[1], split[2], split[3])
        d2 == IF stage = "fit" /\ ~raised
              THEN [d1 EXCEPT !._dataset_train = split[1], !._dataset_val = split[3],
                              !._dataset_test = split[2]]
              ELSE d1
        d3 == IF stage = "test" /\ ~raised
              THEN [d2 EXCEPT !._dataset_test = split[2]]
              ELSE d2
    IN [dm |-> d3, raised |-> raised,
        split |-> [n |-> n, seed |-> d._split_seed,
                   train |-> split[1], test |-> split[2], val |-> split[3]]]

\* setup(stage): the new data module, the split it computed and whether the
\* call raised.  The split is unpacked as train, test, validation.
setup(d, stage, n, cpus, r) ==
    LET d1 == set_auto_nb_workers(d, cpus)
        split == random_split(n, SplitFractions, SplitGenerator(d1, r))
        train_set == split[1]
        test_set == split[2]
        val_set == split[3]
        raised == stage = "fit" /\ log_sets_info_raises(train_set, test_set, val_set)
        d2 == IF stage = "fit" /\ ~raised
              THEN [d1 EXCEPT !._dataset_train = train_set, !._dataset_val = val_set]
              ELSE d1
        d3 == IF stage = "test" /\ ~raised
              THEN [d2 EXCEPT !._dataset_test = test_set]
              ELSE d2
    IN [dm |-> d3, raised |-> raised,
        split |-> [n |-> n, seed |-> d._split_seed,
                   train |-> train_set, test |-> test_set, val |-> val_set]]

(***************************************************************************)
(* ProjectDataModule of src/datasets, which splits with explicit lengths   *)
(***************************************************************************)
\* __init__: no dataset, no subset
ExplicitDataModuleInit ==
    [dataset |-> [isset |-> FALSE, len |-> 0],
     dataset_train |-> None, dataset_test |-> None, dataset_val |-> None,
     batch_size |-> 256]

\* [int(0.7 * nb), int(0.2 * nb), int(0.1 * nb)]; the floating point products
\* truncate to these values for the sizes modelled
ExplicitLengths(nb) == <<(7 * nb) \div 10, (2 * nb) \div 10, nb \div 10>>

\* setup(stage): the dataset is stored, then the three subsets are assigned
\* together from random_split, whatever the stage; an exception of
\* random_split leaves setup before the assignment
setup_lengths(d, stage, nb, g) ==
    LET d1 == [d EXCEPT !.dataset = [isset |-> TRUE, len |-> nb]]
        split == random_split_lengths(nb, ExplicitLengths(nb), g)
    IN  IF split.raised THEN [dm |-> d1, raised |-> TRUE]
        ELSE [dm |-> [d1 EXCEPT !.dataset_train = split.subsets[1],
                                !.dataset_test = split.subsets[2],
                                !.dataset_val = split.subsets[3]],
              raised |-> FALSE]

\* len(DataLoader(subset, batch_size=...)): the number of batches, the last
\* one being kept when it is not full
DataLoaderLen(subset, batch_size) ==
    (Len(subset.indices) + batch_size - 1) \div batch_size

(***************************************************************************)
(* Initial states                                                          *)
(***************************************************************************)
InitDataModules ==
    /\ dataset_len \in DatasetSizes
    /\ pc = [p \in Procs |-> "start"]
    /\ py_random \in [Procs -> 0..(RandMod - 1)]   \* unseeded: any state
    /\ dm = [p \in Procs |-> NoDataModule]
    /\ load_model_path = [p \in Procs |-> NoPath]
    /\ model = [p \in Procs |-> [origin |-> "none", trained_on |-> {}]]
    /\ checkpoint = [exists |-> FALSE, trained_on |-> {}]
    /\ test_run = [p \in Procs |-> [done |-> FALSE, indices |-> {}]]
    /\ history = [p \in Procs |-> NoHistory]
    /\ split_log = {}

(***************************************************************************)
(* Python values of the configuration.  A dict is a function from its keys *)
(* to values; a value is either a nested dict or a leaf.  None is written  *)
(* NoValue where the other values of the argument are strings.             *)
(***************************************************************************)
NoValue == "None"
Leaf(v) == [value |-> v]
Dict(d) == [items |-> d]
IsDict(x) == "items" \in DOMAIN x
\* `not value` for the values an Optional[str] takes
PyNot(v) == v \in {NoValue, ""}
\* key.startswith('__'), for the keys of the configurations modelled
DunderKeys == {"__path__", "__default_config__"}
StartsWithDunder(key) == key \in DunderKeys

_SECRET_ARGS == {"wandb_api_key"}
SecretPlaceholder == "<secret>"

\* d[key] = value if key not in _SECRET_ARGS or not value else '<secret>'
HideSecret_shown(key, value) == value
HideSecret(key, value) ==
    IF key \notin _SECRET_ARGS \/ PyNot(value) THEN value ELSE SecretPlaceholder

\* recursive_process_dict(ref_d, d): the dict d filled from ref_d.  A nested
\* dict is copied recursively whatever its key; a leaf whose key starts with
\* '__' is skipped; a leaf under a secret key is hidden.
RECURSIVE recursive_process_dict(_)
\* Variant: the special keys are copied as the others
recursive_process_dict_all_keys(ref_d) ==
    [key \in DOMAIN ref_d |->
        IF IsDict(ref_d[key])
        THEN Dict(recursive_process_dict(ref_d[key].items))
        ELSE Leaf(HideSecret(key, ref_d[key].value))]

recursive_process_dict(ref_d) ==
    LET kept == {key \in DOMAIN ref_d :
                    IsDict(ref_d[key]) \/ ~StartsWithDunder(key)}
    IN  [key \in kept |->
            IF IsDict(ref_d[key])
            THEN Dict(recursive_process_dict(ref_d[key].items))
            ELSE Leaf(HideSecret(key, ref_d[key].value))]

\* CLIConfig.get_config_dict()
get_config_dict(config) == recursive_process_dict(config)

(***************************************************************************)
(* OutputManager                                                           *)
(***************************************************************************)
\* loguru severities
LevelNo(name) ==
    CASE name = "TRACE" -> 5
      [] name = "DEBUG" -> 10
      [] name = "INFO" -> 20
      [] name = "SUCCESS" -> 25
      [] name = "WARNING" -> 30
      [] name = "ERROR" -> 40
      [] name = "CRITICAL" -> 50

\* log_level.strip().upper(), for the level names of the configurations modelled
Upper(name) ==
    CASE name = "trace" -> "TRACE"
      [] name = "debug" -> "DEBUG"
      [] name = "info" -> "INFO"
      [] name = "warning" -> "WARNING"
      [] name = "error" -> "ERROR"
      [] OTHER -> name

\* OutputManager._parse_log_level: None when logging is disabled
_parse_log_level(log_level) ==
    IF log_level = NoValue \/ log_level = "" THEN NoValue ELSE Upper(log_level)

\* OutputManager.__init__ with the arguments of the `output` group
OutputManagerInit(a) ==
    [built |-> TRUE,
     run_name |-> a.run_name.value,
     log_level_console |-> _parse_log_level(a.log_level_console.value),
     log_level_files |-> _parse_log_level(a.log_level_files.value),
     save_plots |-> a.save_plots.value,
     show_plots |-> a.show_plots.value,
     upload_plots |-> a.upload_plots.value,
     image_latex_format |-> a.image_latex_format.value,
     enable_mlflow |-> a.enable_mlflow.value,
     enable_wandb |-> a.enable_wandb.value,
     wandb_api_key |-> a.wandb_api_key.value,
     \* _init_loggers: the remote loggers, MLFlow first
     loggers |-> (IF a.enable_mlflow.value THEN <<"MLFlowLogger">> ELSE <<>>)
                 \o (IF a.enable_wandb.value THEN <<"WandbLogger">> ELSE <<>>)]

\* cli.output_manager = None
NoOutputManager ==
    [built |-> FALSE, run_name |-> "tmp", log_level_console |-> "INFO",
     log_level_files |-> "DEBUG", save_plots |-> TRUE, show_plots |-> FALSE,
     upload_plots |-> TRUE, image_latex_format |-> FALSE,
     enable_mlflow |-> FALSE, enable_wandb |-> FALSE,
     wandb_api_key |-> NoValue, loggers |-> <<>>]

\* A loguru handler receives a message whose severity is at least its level
Handles(sink_level, level) ==
    sink_level # NoValue /\ LevelNo(level) >= LevelNo(sink_level)

\* logger.<level>(message): the message reaches the console handler and the
\* handler of out/<run_name>/run.log that _init_loggers configured
Emit(o, level, message) ==
    LET rec == [level |-> level, text |-> message.text, args |-> message.args]
    IN  [o EXCEPT
            !.console = IF Handles(o.manager.log_level_console, level)
                        THEN Append(@, rec) ELSE @,
            !.run_log = IF Handles(o.manager.log_level_files, level)
                        THEN Append(@, rec) ELSE @]

\* The remote tracker behind a logger of self.loggers
TrackerOf(log) == IF log = "WandbLogger" THEN "wandb" ELSE "mlflow"

RECURSIVE LogConfigLoop(_, _, _, _)
\* for log in self.loggers: W&B config.update(config) / MLFlow log_hyperparams(config).
\* `failing` names the tracker whose call raises, if any: the exception leaves
\* the loop and the method, there is no try block around the calls.
LogConfigLoop(o, config, i, failing) ==
    IF i > Len(o.manager.loggers) THEN o
    ELSE LET log == o.manager.loggers[i]
         IN  IF TrackerOf(log) = failing
             THEN [o EXCEPT !.config_call.raised = TRUE]
             ELSE LET o1 == IF log = "WandbLogger"
                            THEN [o EXCEPT !.wandb_config = Append(@, config)] ELSE o
                      o2 == IF log = "MLFlowLogger"
                            THEN [o1 EXCEPT !.mlflow_params = Append(@, config)] ELSE o1
                  IN  LogConfigLoop(o2, config, i + 1, failing)

\* _init_loggers, after the handlers are configured: wandb.login(key) when
\* W&B is enabled and a key is given, and the message that tells its result
WandbLogin(o, login_ok) ==
    IF o.manager.enable_wandb /\ ~PyNot(o.manager.wandb_api_key)
    THEN IF login_ok
         THEN Emit(o, "INFO", [text |-> "Weights & Biases login successful.", args |-> <<>>])
         ELSE Emit(o, "ERROR", [text |-> "Weights & Biases login failed.", args |-> <<>>])
    ELSE o

\* OutputManager.log_config(config): the yaml dump of the dict in a debug
\* message, then every remote logger
log_config(o, config, failing) ==
    LogConfigLoop(Emit([o EXCEPT !.config_call = [called |-> TRUE, failing |-> failing,
                                                  raised |-> FALSE]],
                       "DEBUG", [text |-> "Run configuration", args |-> <<config>>]),
                  config, 1, failing)

\* OutputManager.is_plot_enabled()
is_plot_enabled_noshow(o) == o.manager.save_plots \/ o.manager.upload_plots
is_plot_enabled(o) ==
    o.manager.show_plots \/ o.manager.save_plots \/ o.manager.upload_plots

(***************************************************************************)
(* File names are sequences of characters, so that strip() and re.sub act  *)
(* on them.                                                                *)
(***************************************************************************)
WhiteSpace == {" ", "\t", "\n"}
\* the character class [\s\\/]
SeparatorClass == WhiteSpace \cup {"\\", "/"}

RECURSIVE LStrip(_)
LStrip(name) ==
    IF name # <<>> /\ Head(name) \in WhiteSpace THEN LStrip(Tail(name)) ELSE name
RECURSIVE RStrip(_)
RStrip(name) ==
    IF name # <<>> /\ name[Len(name)] \in WhiteSpace
    THEN RStrip(SubSeq(name, 1, Len(name) - 1)) ELSE name
\* str.strip()
Strip(name) == RStrip(LStrip(name))

RECURSIVE SubSeparators(_, _)
\* re.sub(r'[\s\\/]+', '_', name): each maximal run of the class becomes one
\* underscore; inrun tells that the previous character was in the class
SubSeparators(name, inrun) ==
    IF name = <<>> THEN <<>>
    ELSE IF Head(name) \in SeparatorClass
         THEN (IF inrun THEN <<>> ELSE <<"_">>) \o SubSeparators(Tail(name), TRUE)
         ELSE <<Head(name)>> \o SubSeparators(Tail(name), FALSE)

\* file_name = re.sub(r'[\s\\/]+', '_', file_name.strip())
CleanFileName(file_name) == SubSeparators(Strip(file_name), FALSE)

\* self._out_dir = Path('out', self.run_name), the directory of run.log
OutDir(o) == <<"out", o.manager.run_name>>

\* Variant: the extension is png whatever the format asked for
SavePath_png(o, file_name) ==
    [parts |-> <<"out", "tmp", "img">>, name |-> file_name, ext |-> "png"]

\* Path('out', 'tmp', 'img', f'{file_name}.{out_format}')
SavePath(o, file_name) ==
    [parts |-> <<"out", "tmp", "img">>, name |-> file_name,
     ext |-> IF o.manager.image_latex_format THEN "svg" ELSE "png"]

\* A call of process_plot in progress: the manager's destinations, what the
\* call has served so far, the figure, and how the call ended
PlotCall(file_name, failing) ==
    [file_name |-> file_name, failing |-> failing, served |-> {}, fig |-> "open",
     raised |-> FALSE, value |-> <<>>]

\* if self.save_plots: fig.savefig(save_path), then the trace message
SavePlot(st, failing) ==
    IF ~st.o.manager.save_plots THEN st
    ELSE IF failing = "file" THEN [st EXCEPT !.call.raised = TRUE]
    ELSE LET path == SavePath(st.o, st.call.file_name)
             o1 == [st.o EXCEPT !.files = @ \cup {path}]
         IN  [o |-> Emit(o1, "TRACE", [text |-> "Plot saved in", args |-> <<path>>]),
              call |-> [st.call EXCEPT !.served = @ \cup {"file"},
                                       !.value = <<path>>]]

\* if self.upload_plots and self.enable_wandb: wandb.log({file_name: wandb.Image(fig)})
UploadWandb(st, failing) ==
    IF st.call.raised \/ ~st.o.manager.upload_plots \/ ~st.o.manager.enable_wandb
    THEN st
    ELSE IF failing = "wandb" THEN [st EXCEPT !.call.raised = TRUE]
    ELSE [o |-> [st.o EXCEPT !.wandb_plots = Append(@, st.call.file_name)],
          call |-> [st.call EXCEPT !.served = @ \cup {"wandb"}]]

\* if self.upload_plots: for every MLFlowLogger of self.loggers,
\* log.experiment.log_figure(log.run_id, fig, file_name)
UploadMlflow(st, failing) ==
    IF st.call.raised \/ ~st.o.manager.upload_plots
       \/ "MLFlowLogger" \notin Range(st.o.manager.loggers)
    THEN st
    ELSE IF failing = "mlflow" THEN [st EXCEPT !.call.raised = TRUE]
    ELSE [o |-> [st.o EXCEPT !.mlflow_figures = Append(@, st.call.file_name)],
          call |-> [st.call EXCEPT !.served = @ \cup {"mlflow"}]]

\* fig.show() if self.show_plots else plt.close(fig)
ShowOrClose(st) ==
    IF st.call.raised THEN st
    ELSE [st EXCEPT !.call.fig = IF st.o.manager.show_plots THEN "shown" ELSE "closed"]

\* OutputManager.process_plot(fig, file_name).  `failing` names the
\* destination that raises during this call, if any; an exception leaves the
\* method at once, there is no try block in it.  The call is appended to
\* plot_calls with what it served, the state of the figure, whether it raised
\* and the value it returned (<<>> is None).
process_plot(o, file_name, failing) ==
    LET st0 == [o |-> o, call |-> PlotCall(CleanFileName(file_name), failing)]
        st1 == SavePlot(st0, failing)
        st2 == UploadWandb(st1, failing)
        st3 == UploadMlflow(st2, failing)
        st4 == ShowOrClose(st3)
        call == IF st4.call.raised THEN [st4.call EXCEPT !.value = <<>>] ELSE st4.call
    IN  [st4.o EXCEPT !.plot_calls = Append(@, call)]

\* The destinations that the configuration of the manager enables
EnabledDestinations(o) ==
    (IF o.manager.save_plots THEN {"file"} ELSE {})
    \cup (IF o.manager.upload_plots /\ o.manager.enable_wandb THEN {"wandb"} ELSE {})
    \cup (IF o.manager.upload_plots /\ o.manager.enable_mlflow THEN {"mlflow"} ELSE {})

(***************************************************************************)
(* The metrics of BaseModel: self.metrics (a MetricCollection, of which    *)
(* the accuracy is kept) and self.metrics_cm (a ConfusionMatrix normalised *)
(* over the true labels).  A sample is <<label, prediction>>, a batch a     *)
(* sequence of samples; two classes stand for the ten of the model.  A     *)
(* torchmetrics metric accumulates sums at each update; compute() reduces  *)
(* them to a value and hands the metric back; reset() clears them.         *)
(***************************************************************************)
Classes == {0, 1}
Samples == Classes \X Classes
Batches ==
    {<< <<0, 0>>, <<1, 1>> >>,      \* all correct
     << <<0, 1>>, <<1, 0>> >>,      \* all incorrect
     << <<0, 0>>, <<0, 1>> >>}

\* Accuracy('multiclass') / ConfusionMatrix('multiclass', normalize='true')
NewAccuracy == [correct |-> 0, total |-> 0]
NewConfusionMatrix == [confmat |-> [c \in Samples |-> 0]]

RECURSIVE AccuracyUpdate(_, _)
AccuracyUpdate(acc, batch) ==
    IF batch = <<>> THEN acc
    ELSE AccuracyUpdate([correct |-> acc.correct + (IF Head(batch)[1] = Head(batch)[2] THEN 1 ELSE 0),
                         total |-> acc.total + 1],
                        Tail(batch))

RECURSIVE ConfusionMatrixUpdate(_, _)
ConfusionMatrixUpdate(cm, batch) ==
    IF batch = <<>> THEN cm
    ELSE ConfusionMatrixUpdate([cm EXCEPT !.confmat[Head(batch)] = @ + 1], Tail(batch))

\* A ratio is kept as numerator and denominator; 0/0 is the 0 that
\* torchmetrics returns for an empty metric or an empty row
Ratio(num, den) == [num |-> num, den |-> den]
RowSum(cm, label) == cm.confmat[<<label, 0>>] + cm.confmat[<<label, 1>>]

\* metric.compute(): the value, and the metric as compute() leaves it
AccuracyCompute(acc) ==
    [value |-> Ratio(acc.correct, acc.total), metric |-> acc]
ConfusionMatrixCompute_clearing(cm) ==
    [value |-> [c \in Samples |-> Ratio(cm.confmat[c], RowSum(cm, c[1]))],
     metric |-> NewConfusionMatrix]
ConfusionMatrixCompute(cm) ==
    [value |-> [c \in Samples |-> Ratio(cm.confmat[c], RowSum(cm, c[1]))],
     metric |-> cm]

\* BaseModel.evaluate(batch, stage): self.metrics(logits, y) updates the
\* collection, self.metrics_cm(logits, y) the confusion matrix in the test
\* stage only
\* self.loss_fn(logits, y): calling None raises TypeError
LossCall(m) == IF m.loss_fn = NoValue THEN [m EXCEPT !.error = TRUE] ELSE m

\* Variant: the confusion matrix is updated whatever the stage
evaluate_any_stage(m, batch, stage) ==
    IF stage \in {"train", "val", "test"}
    THEN LossCall([m EXCEPT !.acc = AccuracyUpdate(@, batch),
                            !.cm = ConfusionMatrixUpdate(@, batch)])
    ELSE m

\* The stage is None in a call evaluate(batch); a name is a true value
evaluate(m, batch, stage) ==
    IF stage \in {"train", "val", "test"}
    THEN LossCall([m EXCEPT !.acc = AccuracyUpdate(@, batch),
                            !.cm = IF stage = "test" THEN ConfusionMatrixUpdate(@, batch) ELSE @])
    ELSE m

\* BaseModel.training_step(batch, batch_idx): the forward pass and the loss,
\* no metric
training_step(m, batch) ==
    LET m1 == LossCall(m)
    IN  IF m1.error THEN m1 ELSE [m1 EXCEPT !.train_steps = @ + 1]

RECURSIVE EvaluateAll(_, _, _)
\* validation_step / test_step on every batch of the loop, up to the first
\* one that raises
EvaluateAll(m, batches, stage) ==
    IF batches = <<>> \/ m.error THEN m
    ELSE EvaluateAll(evaluate(m, Head(batches), stage), Tail(batches), stage)

\* BaseModel.__init__: the metrics, nothing accumulated.  `stage` and
\* `batches` tell the evaluation loop that is running and the batches it has
\* gone through; `epochs` keeps the loops that ended: their stage, their
\* batches and the accuracy logged at the end of the epoch.
\* loss_fn is None until a child class defines it; `loss` is the attribute
\* of that name, `train_steps` the training steps that returned a loss and
\* `error` tells that a step of the model raised.
NewMetrics ==
    [acc |-> NewAccuracy, cm |-> NewConfusionMatrix,
     loss_fn |-> NoValue, loss |-> NoValue, train_steps |-> 0, error |-> FALSE,
     stage |-> "none", batches |-> <<>>, epochs |-> <<>>]

\* SimpleClassifier.__init__ of src/models: super().__init__(), the layers,
\* then self.loss = CrossEntropyLoss()
SimpleClassifierInitEarlier == [NewMetrics EXCEPT !.loss = "CrossEntropyLoss"]

\* SimpleClassifier.__init__ of src/src/models: super().__init__(), the
\* layers, then self.loss_fn = CrossEntropyLoss()
SimpleClassifierInit == [NewMetrics EXCEPT !.loss_fn = "CrossEntropyLoss"]

\* self.log(f'{stage}_{label}', metric) in evaluate: the trainer computes a
\* logged metric at the end of the epoch
EpochEnd(m) ==
    IF m.error THEN m ELSE
    [m EXCEPT !.epochs = Append(@, [stage |-> m.stage, batches |-> m.batches,
                                    acc |-> AccuracyCompute(m.acc).value])]

\* ... and resets it when the evaluation loop ends, after on_validation_end
\* or on_test_end.  self.metrics_cm is never logged: nothing resets it.
LoopEnd(m) ==
    IF m.error THEN m
    ELSE [m EXCEPT !.acc = NewAccuracy, !.stage = "none", !.batches = <<>>]

\* The default model of the command line interface in every process
IdleMetrics == metrics = [p \in Procs |-> SimpleClassifierInit]

\* What the destinations of one process hold before the output manager exists
NoOutput ==
    [manager |-> NoOutputManager, console |-> <<>>, run_log |-> <<>>,
     wandb_config |-> <<>>, mlflow_params |-> <<>>,
     files |-> {}, wandb_plots |-> <<>>, mlflow_figures |-> <<>>,
     plot_calls |-> <<>>,
     config_call |-> [called |-> FALSE, failing |-> "none", raised |-> FALSE],
     trainer |-> "none",
     wandb_tables |-> <<>>, test_plots |-> <<>>]

(***************************************************************************)
(* plots/test_results.py                                                   *)
(***************************************************************************)
\* The destination that raises during a call of process_plot, if any
Failures == {"none", "file", "wandb", "mlflow"}

\* The step of plot_test_results that raises, if any: a destination of
\* process_plot, the rendering of the heatmap, or the W&B table
PlotFailures == Failures \cup {"render", "wandb_table"}

ConfusionMatrixName ==
    <<"c", "o", "n", "f", "u", "s", "i", "o", "n", "_", "m", "a", "t", "r", "i", "x">>

LastPlotCall(o) == o.plot_calls[Len(o.plot_calls)]

\* A call of plot_test_results in progress: the values it computed from the
\* metrics, the figures it rendered, whether an exception was raised inside
\* the try block (caught) and whether one left the function (raised)
TestPlot(enabled, failing) ==
    [enabled |-> enabled, failing |-> failing, cm_values |-> <<>>,
     acc_values |-> <<>>, figures |-> 0, caught |-> FALSE, raised |-> FALSE]

\* plot_confusion_matrix(output_manager, metrics, confusion_matrix):
\* confusion_matrix.compute(), the heatmap, metrics.acc.compute() for the
\* title, then output_manager.process_plot(fig, 'confusion_matrix')
plot_confusion_matrix(st, failing) ==
    LET cm == ConfusionMatrixCompute(st.m.cm)
        st1 == [st EXCEPT !.m.cm = cm.metric,
                          !.call.cm_values = Append(@, cm.value)]
    IN  IF failing = "render" THEN [st1 EXCEPT !.call.caught = TRUE]
        ELSE LET acc == AccuracyCompute(st1.m.acc)
                 st2 == [st1 EXCEPT !.m.acc = acc.metric,
                                    !.call.acc_values = Append(@, acc.value),
                                    !.call.figures = @ + 1]
                 o3 == process_plot(st2.o, ConfusionMatrixName,
                                    IF failing \in Failures THEN failing ELSE "none")
             IN  [st2 EXCEPT !.o = o3, !.call.caught = LastPlotCall(o3).raised]

\* plot_confusion_matrix_wandb(confusion_matrix): confusion_matrix.compute()
\* again, then wandb.log of the table of the matrix
plot_confusion_matrix_wandb(st, failing) ==
    LET cm == ConfusionMatrixCompute(st.m.cm)
        st1 == [st EXCEPT !.m.cm = cm.metric,
                          !.call.cm_values = Append(@, cm.value)]
    IN  IF failing = "wandb_table" THEN [st1 EXCEPT !.call.caught = TRUE]
        ELSE [st1 EXCEPT !.o.wandb_tables = Append(@, cm.value)]

\* The body of the try block of plot_test_results
PlotTestResultsTry(o, m, failing) ==
    LET st0 == [o |-> o, m |-> m, call |-> TestPlot(TRUE, failing)]
        st1 == plot_confusion_matrix(st0, failing)
    IN  IF st1.call.caught \/ ~st1.o.manager.enable_wandb THEN st1
        ELSE plot_confusion_matrix_wandb(st1, failing)

\* plot_test_results without its try block
plot_test_results_bare(o, m, failing) ==
    IF ~is_plot_enabled(o)
    THEN [o |-> [o EXCEPT !.test_plots = Append(@, TestPlot(FALSE, failing))], m |-> m]
    ELSE LET st == PlotTestResultsTry(o, m, failing)
             call == [st.call EXCEPT !.raised = st.call.caught]
         IN  [o |-> [st.o EXCEPT !.test_plots = Append(@, call)], m |-> st.m]

\* plot_test_results(output_manager, metrics, confusion_matrix): nothing is
\* done when no plot is enabled; otherwise the plots are made inside a try
\* block whose handler logs the exception (logger.exception) and returns.
\* The call is appended to test_plots.
plot_test_results(o, m, failing) ==
    IF ~is_plot_enabled(o)
    THEN [o |-> [o EXCEPT !.test_plots = Append(@, TestPlot(FALSE, failing))], m |-> m]
    ELSE LET st == PlotTestResultsTry(o, m, failing)
             o1 == IF st.call.caught
                   THEN Emit(st.o, "ERROR", [text |-> "An error occurred while plotting the test results",
                                             args |-> <<>>])
                   ELSE st.o
         IN  [o |-> [o1 EXCEPT !.test_plots = Append(@, st.call)], m |-> st.m]

\* The configuration of a process about which nothing is asked
DefaultOutputArgs ==
    [run_name |-> Leaf("tmp"), log_level_console |-> Leaf("info"),
     log_level_files |-> Leaf("debug"), save_plots |-> Leaf(TRUE),
     show_plots |-> Leaf(FALSE), upload_plots |-> Leaf(TRUE),
     image_latex_format |-> Leaf(FALSE), enable_mlflow |-> Leaf(FALSE),
     enable_wandb |-> Leaf(FALSE), wandb_api_key |-> Leaf(NoValue)]
DefaultConfig == [output |-> Dict(DefaultOutputArgs)]

IdleOutput ==
    /\ cli_config = [p \in Procs |-> DefaultConfig]
    /\ out = [p \in Procs |-> NoOutput]

\* The state of the data modules while only the configuration is looked at
IdleDataModules ==
    /\ dataset_len = 0
    /\ pc = [p \in Procs |-> "start"]
    /\ py_random = [p \in Procs |-> 0]
    /\ dm = [p \in Procs |-> NoDataModule]
    /\ load_model_path = [p \in Procs |-> NoPath]
    /\ model = [p \in Procs |-> [origin |-> "none", trained_on |-> {}]]
    /\ checkpoint = [exists |-> FALSE, trained_on |-> {}]
    /\ test_run = [p \in Procs |-> [done |-> FALSE, indices |-> {}]]
    /\ history = [p \in Procs |-> NoHistory]
    /\ split_log = {}

\* Configurations: config.yaml and the command line of a run
RunNames == {"tmp", "x"}
ApiKeys == {NoValue, "", "secret123", "abc"}
ConsoleLevels == {"info", "debug"}
FileLevels == {NoValue, "debug"}

WithOutputArgs(config, run_name, key) ==
    [config EXCEPT !.output = Dict([@.items EXCEPT !.run_name = Leaf(run_name),
                                                   !.wandb_api_key = Leaf(key)])]

ConfigGroups(lc, lf, ml, wb) ==
    [output |-> Dict([DefaultOutputArgs EXCEPT
                        !.log_level_console = Leaf(lc),
                        !.log_level_files = Leaf(lf),
                        !.enable_mlflow = Leaf(ml),
                        !.enable_wandb = Leaf(wb)]),
     trainer |-> Dict([max_epochs |-> Leaf(50), load_model_path |-> Leaf(NoValue)]),
     model |-> Dict([class_path |-> Leaf("SimpleClassifier"),
                     init_args |-> Dict([num_hidden |-> Leaf(256)])])]

\* as_dict() of a configuration read from files carries the special keys:
\* that of config.yaml, and that of a file given for the trainer group
FromFile(config) ==
    [key \in DOMAIN config \cup {"__path__"} |->
        IF key = "__path__" THEN Leaf("config.yaml")
        ELSE IF key = "trainer"
        THEN Dict([k \in DOMAIN config[key].items \cup {"__path__"} |->
                     IF k = "__path__" THEN Leaf("trainer.yaml") ELSE config[key].items[k]])
        ELSE config[key]]

Configs ==
    LET plain == {ConfigGroups(lc, lf, ml, wb) :
                    lc \in ConsoleLevels, lf \in FileLevels,
                    ml \in BOOLEAN, wb \in BOOLEAN}
    IN  plain \cup {FromFile(c) : c \in plain}

\* Configurations of the plots of one run
PlotConfigs ==
    {[output |-> Dict([DefaultOutputArgs EXCEPT
                        !.log_level_files = Leaf(lf),
                        !.save_plots = Leaf(save), !.show_plots = Leaf(show),
                        !.upload_plots = Leaf(upload),
                        !.image_latex_format = Leaf(latex),
                        !.enable_mlflow = Leaf(ml), !.enable_wandb = Leaf(wb)])] :
        lf \in {"debug", "trace"}, save \in BOOLEAN, show \in BOOLEAN,
        upload \in BOOLEAN, latex \in BOOLEAN, ml \in BOOLEAN, wb \in BOOLEAN}
    \cup {[output |-> Dict([DefaultOutputArgs EXCEPT
                             !.run_name = Leaf(name), !.log_level_files = Leaf("trace"),
                             !.image_latex_format = Leaf(latex)])] :
             name \in RunNames, latex \in BOOLEAN}

\* Names given to process_plot: the one of plot_confusion_matrix and names
\* with spaces, tabs and slashes
FileNames ==
    {ConfusionMatrixName,
     <<" ", "a", " ", "/", "b", "\\", " ">>,
     <<"l", "o", "s", "s", "\t", "/", "1">>}

InitPlot ==
    /\ IdleDataModules
    /\ IdleMetrics
    /\ cli_config \in {[p \in Procs |-> IF p \in {"p1"} THEN c ELSE DefaultConfig] :
                          c \in PlotConfigs}
    /\ out = [p \in Procs |-> NoOutput]

\* Configurations of the plots of the test results
TestPlotConfigs ==
    {[output |-> Dict([DefaultOutputArgs EXCEPT
                        !.save_plots = Leaf(save), !.show_plots = Leaf(show),
                        !.upload_plots = Leaf(upload),
                        !.enable_mlflow = Leaf(ml), !.enable_wandb = Leaf(wb)])] :
        save \in BOOLEAN, show \in BOOLEAN, upload \in BOOLEAN,
        ml \in BOOLEAN, wb \in BOOLEAN}

InitTestPlot ==
    /\ IdleDataModules
    /\ IdleMetrics
    /\ cli_config \in {[p \in Procs |-> IF p \in {"p1"} THEN c ELSE DefaultConfig] :
                          c \in TestPlotConfigs}
    /\ out = [p \in Procs |-> NoOutput]

\* Configurations of the runs whose metrics are followed: the default one,
\* and the same with Weights & Biases
TestConfigs ==
    {[output |-> Dict([DefaultOutputArgs EXCEPT !.enable_wandb = Leaf(wb)])] :
        wb \in BOOLEAN}

InitTest ==
    /\ IdleDataModules
    /\ IdleMetrics
    /\ cli_config \in {[p \in Procs |-> IF p \in {"p1"} THEN c ELSE DefaultConfig] :
                          c \in TestConfigs}
    /\ out = [p \in Procs |-> NoOutput]

\* Two runs whose configurations share everything but the run name and the
\* API key, which each run sets for itself
InitConfig ==
    /\ IdleDataModules
    /\ IdleMetrics
    /\ cli_config \in
         {[p \in Procs |-> WithOutputArgs(c, names[p], keys[p])] :
            c \in Configs, names \in [Procs -> RunNames], keys \in [Procs -> ApiKeys]}
    /\ out = [p \in Procs |-> NoOutput]

InitRun == InitDataModules /\ IdleOutput /\ IdleMetrics

(***************************************************************************)
(* Actions on the data module, as the unit tests call them                 *)
(***************************************************************************)
\* lightning.seed_everything(s): fixes the global `random` state
SeedEverything(p, s) ==
    /\ py_random' = [py_random EXCEPT ![p] = seed_everything(s)]
    /\ UNCHANGED <<dataset_len, pc, dm, load_model_path, model,
                   checkpoint, test_run, history, split_log>>
    /\ UNCHANGED outVars
    /\ UNCHANGED mVars

\* Path(load_model_path).is_file(): the checkpoint is the only model file
is_file(path, ckpt) == path = CkptPath /\ ckpt.exists

\* The end of ModelTrainer.__init__: a path that is neither None nor blank is
\* kept if it names a file and raises FileNotFoundError otherwise; None and
\* blank paths give None
ModelTrainerInit_unchecked(path, ckpt) ==
    IF ~path.none /\ Strip(path.text) # <<>>
    THEN [load_model_path |-> path, raised |-> FALSE]
    ELSE [load_model_path |-> NoPath, raised |-> FALSE]
ModelTrainerInit(path, ckpt) ==
    IF ~path.none /\ Strip(path.text) # <<>>
    THEN [load_model_path |-> path, raised |-> ~is_file(path, ckpt)]
    ELSE [load_model_path |-> NoPath, raised |-> FALSE]

\* CLIConfig().get_run_objects() / the constructors called by the tests:
\* a model, a data module, then a trainer.  An exception of ModelTrainer
\* leaves CLIConfig() and ends run(): no trainer exists.
Construct(p, path) ==
    /\ pc[p] = "start"
    /\ dm' = [dm EXCEPT ![p] = DataModuleInit(py_random[p])]
    /\ py_random' = [py_random EXCEPT ![p] = RandNext(@)]
    /\ model' = [model EXCEPT ![p] = [origin |-> "init", trained_on |-> {}]]
    /\ history' = [history EXCEPT ![p].random_at_init = py_random[p]]
    /\ LET trainer == ModelTrainerInit(path, checkpoint)
       IN  IF trainer.raised
           THEN /\ pc' = [pc EXCEPT ![p] = "crashed"]
                /\ UNCHANGED load_model_path
           ELSE /\ pc' = [pc EXCEPT ![p] = "built"]
                /\ load_model_path' = [load_model_path EXCEPT ![p] = trainer.load_model_path]
    /\ UNCHANGED <<dataset_len, checkpoint, test_run, split_log>>
    /\ UNCHANGED outVars
    /\ UNCHANGED mVars

\* datamodule.prepare_data(): downloads, stores nothing
PrepareData(p) ==
    /\ pc[p] # "start"
    /\ dm' = [dm EXCEPT ![p] = prepare_data(@, dataset_len)]
    /\ history' = [history EXCEPT ![p].prepared = TRUE]
    /\ UNCHANGED <<dataset_len, pc, py_random, load_model_path, model,
                   checkpoint, test_run, split_log>>
    /\ UNCHANGED outVars
    /\ UNCHANGED mVars

\* datamodule.setup(stage) called directly; the number of cores is read from
\* the operating system
Setup(p, stage, cpus) ==
    /\ pc[p] # "start"
    /\ LET res == setup(dm[p], stage, dataset_len, cpus, py_random[p])
       IN /\ dm' = [dm EXCEPT ![p] = res.dm]
          /\ split_log' = split_log \cup {res.split}
    /\ UNCHANGED <<dataset_len, pc, py_random, load_model_path, model,
                   checkpoint, test_run, history>>
    /\ UNCHANGED outVars
    /\ UNCHANGED mVars

\* The trainer attaches itself to the data module (datamodule.trainer) when
\* one of its entry points receives it
AttachTrainer(p) ==
    /\ pc[p] # "start"
    /\ ~dm[p].trainer
    /\ dm' = [dm EXCEPT ![p].trainer = TRUE]
    /\ UNCHANGED <<dataset_len, pc, py_random, load_model_path, model,
                   checkpoint, test_run, history, split_log>>
    /\ UNCHANGED outVars
    /\ UNCHANGED mVars

\* train_dataloader / val_dataloader / test_dataloader: build a DataLoader
\* over the stored subset, store nothing
Dataloader(p, which) ==
    /\ pc[p] # "start"
    /\ which \in {"train", "val", "test"}
    /\ UNCHANGED vars

(***************************************************************************)
(* Actions of run()                                                        *)
(***************************************************************************)
\* trainer.fit(model, datamodule) in run(): attaches the trainer to the data
\* module, prepare_data, setup("fit"), trains on the train subset and writes
\* the checkpoint.  A raising setup ends run().
Fit(p, cpus) ==
    /\ pc[p] = "built"
    /\ load_model_path[p] = NoPath
    /\ LET res == setup([dm[p] EXCEPT !.trainer = TRUE], "fit", dataset_len,
                        cpus, py_random[p])
           fitted == Range(res.dm._dataset_train.indices)
       IN /\ dm' = [dm EXCEPT ![p] = res.dm]
          /\ split_log' = split_log \cup {res.split}
          /\ IF res.raised
             THEN /\ pc' = [pc EXCEPT ![p] = "crashed"]
                  /\ UNCHANGED <<model, checkpoint>>
             ELSE /\ pc' = [pc EXCEPT ![p] = "ready"]
                  /\ model' = [model EXCEPT ![p] = [origin |-> "fit", trained_on |-> fitted]]
                  /\ checkpoint' = [exists |-> TRUE, trained_on |-> fitted]
    /\ history' = [history EXCEPT ![p].fits = @ + 1]
    /\ UNCHANGED <<dataset_len, py_random, load_model_path, test_run>>
    /\ UNCHANGED outVars
    /\ UNCHANGED mVars

\* Variant: the model returned by load_model_from_file is dropped
LoadModelFromFile_dropped(p) ==
    /\ pc[p] = "built"
    /\ load_model_path[p] # NoPath
    /\ UNCHANGED model
    /\ pc' = [pc EXCEPT ![p] = "ready"]
    /\ UNCHANGED <<dataset_len, py_random, dm, load_model_path,
                   checkpoint, test_run, history, split_log>>
    /\ UNCHANGED outVars
    /\ UNCHANGED mVars

\* trainer.load_model_from_file(model.__class__): the parameters of the
\* checkpoint, and with them the records they were fitted on; nothing of the
\* data module is read from or written to the file.
LoadModelFromFile(p) ==
    /\ pc[p] = "built"
    /\ load_model_path[p] # NoPath
    /\ model' = [model EXCEPT ![p] = [origin |-> "file", trained_on |-> checkpoint.trained_on]]
    /\ pc' = [pc EXCEPT ![p] = "ready"]
    /\ UNCHANGED <<dataset_len, py_random, dm, load_model_path,
                   checkpoint, test_run, history, split_log>>
    /\ UNCHANGED outVars
    /\ UNCHANGED mVars

\* trainer.test(model, datamodule) in run(): setup("test"), then evaluates
\* the test subset.
Test(p, cpus) ==
    /\ pc[p] = "ready"
    /\ LET res == setup([dm[p] EXCEPT !.trainer = TRUE], "test", dataset_len,
                        cpus, py_random[p])
       IN /\ dm' = [dm EXCEPT ![p] = res.dm]
          /\ split_log' = split_log \cup {res.split}
          /\ test_run' = [test_run EXCEPT ![p] =
                            [done |-> TRUE, indices |-> Range(res.dm._dataset_test.indices)]]
    /\ pc' = [pc EXCEPT ![p] = "tested"]
    /\ history' = [history EXCEPT ![p].tests = @ + 1, ![p].tested = model[p].origin]
    /\ UNCHANGED <<dataset_len, py_random, load_model_path, model, checkpoint>>
    /\ UNCHANGED outVars
    /\ UNCHANGED mVars

(***************************************************************************)
(* Actions of the command line interface                                   *)
(***************************************************************************)
\* The tracker whose call raises while the configuration is logged, if any
TrackerFailures == {"none", "wandb", "mlflow"}

\* @logger.catch of run(): an exception that leaves run() is logged as an
\* error and run() returns
CatchInRun(o) ==
    Emit(o, "ERROR", [text |-> "An error has been caught in function 'run'", args |-> <<>>])

\* CLIConfig.instantiate_trainer, called by CLIConfig() in run(): the output
\* manager is built from the `output` group (OutputManager.__init__,
\* _init_loggers), then log_config(get_config_dict()) runs, then the trainer
\* is built with the output manager.  An exception of log_config leaves
\* instantiate_trainer and CLIConfig(): no trainer is built and run() ends.
InstantiateTrainer(p, login_ok, failing) ==
    /\ ~out[p].manager.built
    /\ LET manager == OutputManagerInit(cli_config[p].output.items)
           o1 == WandbLogin([out[p] EXCEPT !.manager = manager], login_ok)
           o2 == log_config(o1, get_config_dict(cli_config[p]), failing)
       IN  out' = [out EXCEPT ![p] =
                      IF o2.config_call.raised
                      THEN [CatchInRun(o2) EXCEPT !.trainer = "never"]
                      ELSE [o2 EXCEPT !.trainer = "built"]]
    /\ UNCHANGED cli_config
    /\ UNCHANGED dmVars
    /\ UNCHANGED mVars

\* A plot function hands a figure to output_manager.process_plot
ProcessPlot(p, file_name, failing) ==
    /\ out[p].trainer = "built"
    /\ Len(out[p].plot_calls) < MaxPlotCalls
    /\ out' = [out EXCEPT ![p] = process_plot(@, file_name, failing)]
    /\ UNCHANGED cli_config
    /\ UNCHANGED dmVars
    /\ UNCHANGED mVars

(***************************************************************************)
(* Actions of the evaluation loops of the trainer on the model             *)
(***************************************************************************)
\* The batches that a validation or a test dataloader yields
EvalLoops ==
    {<<b>> : b \in Batches}
        \cup {<< << <<0, 0>>, <<1, 1>> >>, << <<0, 1>>, <<1, 0>> >> >>}

\* A validation loop of trainer.fit: validation_step on every batch, the end
\* of the epoch, the end of the loop
ValidationLoop(p, batches) ==
    /\ out[p].trainer = "built"
    /\ metrics[p].stage = "none"
    /\ Len(metrics[p].epochs) < MaxEvalRuns
    /\ metrics' = [metrics EXCEPT ![p] =
                      LoopEnd(EpochEnd(EvaluateAll([@ EXCEPT !.stage = "val", !.batches = batches],
                                                   batches, "val")))]
    /\ UNCHANGED outVars
    /\ UNCHANGED dmVars

\* The test loop of trainer.test up to the end of its epoch: test_step on
\* every batch, then the logged metrics are computed
TestSteps(p, batches) ==
    /\ out[p].trainer = "built"
    /\ metrics[p].stage = "none"
    /\ Len(metrics[p].epochs) < MaxEvalRuns
    /\ metrics' = [metrics EXCEPT ![p] =
                      EpochEnd(EvaluateAll([@ EXCEPT !.stage = "test", !.batches = batches],
                                           batches, "test"))]
    /\ UNCHANGED outVars
    /\ UNCHANGED dmVars

\* BaseModel.on_test_end: plot_test_results on the metrics of the model, after
\* which the test loop ends
OnTestEnd(p, failing) ==
    /\ metrics[p].stage = "test"
    /\ ~metrics[p].error
    /\ LET res == plot_test_results(out[p], metrics[p], failing)
       IN  /\ out' = [out EXCEPT ![p] = res.o]
           /\ metrics' = [metrics EXCEPT ![p] = LoopEnd(res.m)]
    /\ UNCHANGED cli_config
    /\ UNCHANGED dmVars

(***************************************************************************)
(* Actions on the data module of src/datasets                              *)
(***************************************************************************)
\* ProjectDataModule()
ConstructExplicit(p) ==
    /\ pc[p] = "start"
    /\ dm' = [dm EXCEPT ![p] = ExplicitDataModuleInit]
    /\ pc' = [pc EXCEPT ![p] = "built"]
    /\ UNCHANGED <<dataset_len, py_random, load_model_path, model,
                   checkpoint, test_run, history, split_log>>
    /\ UNCHANGED outVars
    /\ UNCHANGED mVars

\* datamodule.setup(stage); the default generator of torch is in any state.
\* An exception ends the caller.
SetupExplicit(p, stage, seed) ==
    /\ pc[p] = "built"
    /\ LET res == setup_lengths(dm[p], stage, dataset_len, manual_seed(seed))
       IN  /\ dm' = [dm EXCEPT ![p] = res.dm]
           /\ pc' = [pc EXCEPT ![p] = IF res.raised THEN "crashed" ELSE "built"]
    /\ UNCHANGED <<dataset_len, py_random, load_model_path, model,
                   checkpoint, test_run, history, split_log>>
    /\ UNCHANGED outVars
    /\ UNCHANGED mVars

(***************************************************************************)
(* Actions of tests/test_model.py                                          *)
(***************************************************************************)
\* SimpleClassifier(), ProjectDataModule(), Trainer(fast_dev_run=True): the
\* classifier of src/models (earlier) or the one of src/src/models
ConstructModel(p, earlier) ==
    /\ pc[p] = "start"
    /\ metrics' = [metrics EXCEPT ![p] =
                      IF earlier THEN SimpleClassifierInitEarlier ELSE SimpleClassifierInit]
    /\ dm' = [dm EXCEPT ![p] = DataModuleInit(py_random[p])]
    /\ py_random' = [py_random EXCEPT ![p] = RandNext(@)]
    /\ model' = [model EXCEPT ![p] = [origin |-> "init", trained_on |-> {}]]
    /\ history' = [history EXCEPT ![p].random_at_init = py_random[p]]
    /\ pc' = [pc EXCEPT ![p] = "built"]
    /\ UNCHANGED <<dataset_len, load_model_path, checkpoint, test_run, split_log>>
    /\ UNCHANGED outVars

\* trainer.fit(model, datamodule) with fast_dev_run: setup("fit"), one
\* training batch, then one validation batch; no checkpoint is written.  An
\* exception of setup or of a step leaves fit and fails the test.
FitFastDevRun(p, cpus, train_batch, val_batch) ==
    /\ pc[p] = "built"
    /\ LET res == setup([dm[p] EXCEPT !.trainer = TRUE], "fit", dataset_len,
                        cpus, py_random[p])
           m1 == training_step(metrics[p], train_batch)
           m2 == LoopEnd(EpochEnd(EvaluateAll([m1 EXCEPT !.stage = "val",
                                                         !.batches = <<val_batch>>],
                                              <<val_batch>>, "val")))
       IN /\ dm' = [dm EXCEPT ![p] = res.dm]
          /\ split_log' = split_log \cup {res.split}
          /\ IF res.raised
             THEN /\ pc' = [pc EXCEPT ![p] = "crashed"]
                  /\ UNCHANGED <<model, metrics>>
             ELSE IF m1.error
             THEN /\ pc' = [pc EXCEPT ![p] = "crashed"]
                  /\ metrics' = [metrics EXCEPT ![p] = m1]
                  /\ UNCHANGED model
             ELSE /\ pc' = [pc EXCEPT ![p] = "ready"]
                  /\ metrics' = [metrics EXCEPT ![p] = m2]
                  /\ model' = [model EXCEPT ![p] =
                                  [origin |-> "fit",
                                   trained_on |-> Range(res.dm._dataset_train.indices)]]
    /\ history' = [history EXCEPT ![p].fits = @ + 1]
    /\ UNCHANGED <<dataset_len, py_random, load_model_path, checkpoint, test_run>>
    /\ UNCHANGED outVars

(***************************************************************************)
(* Specifications                                                          *)
(***************************************************************************)
\* The data module of one process driven call by call, as
\* tests/test_dataset.py does, over every small dataset and the dataset of
\* 100 records of the end-to-end scenario
UnitProcs == {"p1"}

InitScenario ==
    /\ dataset_len \in ScenarioSizes
    /\ pc = [p \in Procs |-> "start"]
    /\ py_random \in [Procs -> 0..(RandMod - 1)]
    /\ dm = [p \in Procs |-> NoDataModule]
    /\ load_model_path = [p \in Procs |-> NoPath]
    /\ model = [p \in Procs |-> [origin |-> "none", trained_on |-> {}]]
    /\ checkpoint = [exists |-> FALSE, trained_on |-> {}]
    /\ test_run = [p \in Procs |-> [done |-> FALSE, indices |-> {}]]
    /\ history = [p \in Procs |-> NoHistory]
    /\ split_log = {}

Init == (InitDataModules \/ InitScenario) /\ IdleOutput /\ IdleMetrics

Next ==
    \/ \E p \in UnitProcs, s \in GlobalSeeds : SeedEverything(p, s)
    \/ \E p \in UnitProcs : Construct(p, NoPath)
    \/ \E p \in UnitProcs : PrepareData(p)
    \/ \E p \in UnitProcs, stage \in Stages, cpus \in 1..MaxCpu : Setup(p, stage, cpus)
    \/ \E p \in UnitProcs : AttachTrainer(p)
    \/ \E p \in UnitProcs, which \in {"train", "val", "test"} : Dataloader(p, which)

Spec == Init /\ [][Next]_vars

\* The load_model_path arguments of the runs: None, blank texts, the
\* checkpoint, the checkpoint between spaces and another file name
LoadPaths ==
    {NoPath, PathText(<<>>), PathText(<<" ", "\t">>), CkptPath,
     PathText(<<" ">> \o CkptPath.text \o <<" ">>), PathText(<<"x">>)}

\* Whole runs of run(): build, fit or load, test
NextRun ==
    \/ \E p \in Procs, s \in GlobalSeeds : SeedEverything(p, s)
    \/ \E p \in Procs, path \in LoadPaths : Construct(p, path)
    \/ \E p \in Procs, cpus \in 1..MaxCpu : Fit(p, cpus)
    \/ \E p \in Procs : LoadModelFromFile(p)
    \/ \E p \in Procs, cpus \in 1..MaxCpu : Test(p, cpus)

SpecRun == InitRun /\ [][NextRun]_vars

\* The construction of the command line interface in two runs
NextConfig ==
    \E p \in Procs, login_ok \in BOOLEAN, failing \in TrackerFailures :
        InstantiateTrainer(p, login_ok, failing)

SpecConfig == InitConfig /\ [][NextConfig]_vars

\* The plots of one run: the output manager is built, then plot functions
\* call process_plot
NextPlot ==
    \/ \E p \in UnitProcs, login_ok \in BOOLEAN, failing \in TrackerFailures :
          InstantiateTrainer(p, login_ok, failing)
    \/ \E p \in UnitProcs, file_name \in FileNames, failing \in Failures :
          ProcessPlot(p, file_name, failing)

SpecPlot == InitPlot /\ [][NextPlot]_vars

\* The end of the test of one run, over every configuration of the plots
NextTestPlot ==
    \/ \E p \in UnitProcs, login_ok \in BOOLEAN, failing \in TrackerFailures :
          InstantiateTrainer(p, login_ok, failing)
    \/ \E p \in UnitProcs, batches \in EvalLoops : TestSteps(p, batches)
    \/ \E p \in UnitProcs, failing \in PlotFailures : OnTestEnd(p, failing)

SpecTestPlot == InitTestPlot /\ [][NextTestPlot]_vars

\* The evaluation loops that a trainer runs on one model, one after the other
NextTest ==
    \/ \E p \in UnitProcs, login_ok \in BOOLEAN, failing \in TrackerFailures :
          InstantiateTrainer(p, login_ok, failing)
    \/ \E p \in UnitProcs, batches \in EvalLoops : ValidationLoop(p, batches)
    \/ \E p \in UnitProcs, batches \in EvalLoops : TestSteps(p, batches)
    \/ \E p \in UnitProcs, failing \in PlotFailures : OnTestEnd(p, failing)

SpecTest == InitTest /\ [][NextTest]_vars

\* The data module of src/datasets driven call by call
NextExplicit ==
    \/ \E p \in Procs : ConstructExplicit(p)
    \/ \E p \in Procs, stage \in Stages, seed \in 0..MaxSplitSeed :
          SetupExplicit(p, stage, seed)

SpecExplicit == Init /\ [][NextExplicit]_vars

\* tests/test_model.py: a classifier and a data module are built and fitted
\* on one training batch and one validation batch
InitModel ==
    /\ InitDataModules
    /\ IdleOutput
    /\ metrics = [p \in Procs |-> NewMetrics]

NextModel ==
    \/ \E p \in UnitProcs, s \in GlobalSeeds : SeedEverything(p, s)
    \/ \E p \in UnitProcs, earlier \in BOOLEAN : ConstructModel(p, earlier)
    \/ \E p \in UnitProcs, cpus \in 1..MaxCpu, train_batch \in Batches, val_batch \in Batches :
          FitFastDevRun(p, cpus, train_batch, val_batch)

SpecModel == InitModel /\ [][NextModel]_vars

(***************************************************************************)
(* Properties of the split                                                 *)
(***************************************************************************)
Indices(subset) == Range(subset.indices)
Size(subset) == Len(subset.indices)
AllSubsetsSet(d) == d._dataset_train.isset /\ d._dataset_val.isset /\ d._dataset_test.isset

\* C1: every split that setup computes on a dataset of N >= 1 records is
\* three index sets that are pairwise disjoint, whose sizes sum to N and
\* whose union is {0..N-1}.
SplitIsPartition ==
    \A e \in split_log :
        e.n >= 1 =>
            /\ Indices(e.train) \cap Indices(e.val) = {}
            /\ Indices(e.train) \cap Indices(e.test) = {}
            /\ Indices(e.val) \cap Indices(e.test) = {}
            /\ Size(e.train) + Size(e.val) + Size(e.test) = e.n
            /\ Indices(e.train) \cup Indices(e.val) \cup Indices(e.test) = 0..(e.n - 1)

\* a split of at least 10 records in which no subset is empty
SplitIsPartitionWitness ==
    \E e \in split_log :
        e.n >= 10 /\ Size(e.train) > 0 /\ Size(e.val) > 0 /\ Size(e.test) > 0

\* C2: once setup("fit") and setup("test") calls, in any order and number,
\* have set the three stored subsets of a data module, the stored subsets are
\* pairwise disjoint.
StoredSubsetsDisjoint ==
    \A p \in Procs :
        AllSubsetsSet(dm[p]) =>
            /\ Indices(dm[p]._dataset_train) \cap Indices(dm[p]._dataset_val) = {}
            /\ Indices(dm[p]._dataset_train) \cap Indices(dm[p]._dataset_test) = {}
            /\ Indices(dm[p]._dataset_val) \cap Indices(dm[p]._dataset_test) = {}

\* the three subsets are stored, none is empty, and the global random state
\* is no longer the one the split seed was drawn from
StoredSubsetsDisjointWitness ==
    \E p \in Procs :
        /\ AllSubsetsSet(dm[p])
        /\ Size(dm[p]._dataset_train) > 0
        /\ Size(dm[p]._dataset_val) > 0
        /\ Size(dm[p]._dataset_test) > 0
        /\ randint(py_random[p], 0, MaxSplitSeed) # dm[p]._split_seed

\* C3: the split is a function of (dataset size, split seed): any two splits
\* computed with the same seed on the same dataset size are the same three
\* index lists, whatever was called before.
SplitDeterministic ==
    \A a, b \in split_log :
        (a.n = b.n /\ a.seed = b.seed) =>
            (a.train = b.train /\ a.val = b.val /\ a.test = b.test)

\* train/validation and test come from two setup calls, between which the
\* global random state was changed, and the two calls computed one split
SplitDeterministicWitness ==
    \E p \in Procs :
        /\ AllSubsetsSet(dm[p])
        /\ dataset_len >= 10
        /\ Cardinality(split_log) = 1
        /\ randint(py_random[p], 0, MaxSplitSeed) # dm[p]._split_seed

\* C4: workers that each build their own data module and fit derive the
\* same train/validation/test split.
WorkersDeriveSameSplit ==
    \A p, q \in Procs :
        (model[p].origin = "fit" /\ model[q].origin = "fit") =>
            /\ Indices(dm[p]._dataset_train) = Indices(dm[q]._dataset_train)
            /\ Indices(dm[p]._dataset_val) = Indices(dm[q]._dataset_val)
            /\ (test_run[p].done /\ test_run[q].done) =>
                   test_run[p].indices = test_run[q].indices

\* C5: a model re-loaded from a checkpoint is tested on a test subset that
\* holds no record of the training subset of the run that wrote the
\* checkpoint.
ReloadedTestSetUnseen ==
    \A p \in Procs :
        (model[p].origin = "file" /\ test_run[p].done) =>
            test_run[p].indices \cap model[p].trained_on = {}

\* C6: after construction no call changes the split seed of a data module.
SplitSeedNeverChanges ==
    [][\A p \in Procs :
          pc[p] # "start" => dm'[p]._split_seed = dm[p]._split_seed]_vars

\* setup has run for both stages, with a trainer attached
SplitSeedNeverChangesWitness ==
    \E p \in Procs : AllSubsetsSet(dm[p]) /\ dm[p]._nb_workers > 0

\* C7 as stated: of 100 records, train has 70, validation 20 and test 10.
ScenarioVal20Test10 ==
    \A p \in Procs :
        dataset_len = 100 =>
            /\ dm[p]._dataset_train.isset => Size(dm[p]._dataset_train) = 70
            /\ dm[p]._dataset_val.isset => Size(dm[p]._dataset_val) = 20
            /\ dm[p]._dataset_test.isset => Size(dm[p]._dataset_test) = 10

\* C7 amended: train receives 70% of the records, test 20% and validation
\* 10% whenever the dataset size is a multiple of 10; of 100 records, train
\* has 70, test 20 and validation 10.
ScenarioTest20Val10 ==
    \A p \in Procs :
        /\ dataset_len % 10 = 0 =>
              /\ dm[p]._dataset_train.isset =>
                     10 * Size(dm[p]._dataset_train) = 7 * dataset_len
              /\ dm[p]._dataset_test.isset =>
                     10 * Size(dm[p]._dataset_test) = 2 * dataset_len
              /\ dm[p]._dataset_val.isset =>
                     10 * Size(dm[p]._dataset_val) = dataset_len
        /\ dataset_len = 100 =>
              /\ dm[p]._dataset_train.isset => Size(dm[p]._dataset_train) = 70
              /\ dm[p]._dataset_test.isset => Size(dm[p]._dataset_test) = 20
              /\ dm[p]._dataset_val.isset => Size(dm[p]._dataset_val) = 10

\* the three subsets of the dataset of 100 records are stored
ScenarioTest20Val10Witness ==
    \E p \in Procs : dataset_len = 100 /\ AllSubsetsSet(dm[p])

\* round(num / den), halves to the even neighbour as Python's round does
Round(num, den) ==
    LET q == num \div den
        rest == num % den
    IN IF 2 * rest < den THEN q
       ELSE IF 2 * rest > den THEN q + 1
       ELSE IF q % 2 = 0 THEN q ELSE q + 1

\* C8 as stated: train has round(0.7 N) indices, validation round(0.2 N) and
\* test the rest.
SizesRoundedLastAbsorbs ==
    \A e \in split_log :
        e.n >= 1 =>
            /\ Size(e.train) = Round(7 * e.n, 10)
            /\ Size(e.val) = Round(2 * e.n, 10)
            /\ Size(e.test) = e.n - Round(7 * e.n, 10) - Round(2 * e.n, 10)

\* C8 amended: with rest = N - floor(0.7 N) - floor(0.2 N) - floor(0.1 N),
\* train has floor(0.7 N) indices and one more if rest >= 1, test has
\* floor(0.2 N) and one more if rest >= 2, validation has floor(0.1 N): the
\* rounding remainder goes to the first subsets, never to the last.
SizesFlooredFirstAbsorb ==
    \A e \in split_log :
        e.n >= 1 =>
            LET rest == e.n - ((7 * e.n) \div 10) - ((2 * e.n) \div 10) - (e.n \div 10)
            IN /\ rest \in 0..2
               /\ Size(e.train) = ((7 * e.n) \div 10) + (IF rest >= 1 THEN 1 ELSE 0)
               /\ Size(e.test) = ((2 * e.n) \div 10) + (IF rest >= 2 THEN 1 ELSE 0)
               /\ Size(e.val) = e.n \div 10

\* a split of 9 records: the floors 6, 1, 0 leave 2, train gets 7 and test 2
SizesFlooredFirstAbsorbWitness ==
    \E e \in split_log : e.n = 9 /\ Size(e.train) = 7 /\ Size(e.test) = 2 /\ Size(e.val) = 0

(***************************************************************************)
(* Properties of the logged configuration                                  *)
(***************************************************************************)
IsConfigMsg(m) == m.text = "Run configuration"
ConfigsOf(log) ==
    LET msgs == SelectSeq(log, IsConfigMsg)
    IN  [i \in 1..Len(msgs) |-> msgs[i].args[1]]

\* The configuration records of one run, destination by destination
ConfigRecords(o) ==
    [console |-> ConfigsOf(o.console), run_log |-> ConfigsOf(o.run_log),
     wandb |-> o.wandb_config, mlflow |-> o.mlflow_params]

AllConfigRecords(o) ==
    Range(ConfigsOf(o.console)) \cup Range(ConfigsOf(o.run_log))
        \cup Range(o.wandb_config) \cup Range(o.mlflow_params)

RECURSIVE SecretsReplaced(_)
\* every value under a secret key is the placeholder
SecretsReplaced(d) ==
    \A key \in DOMAIN d :
        IF IsDict(d[key]) THEN SecretsReplaced(d[key].items)
        ELSE key \in _SECRET_ARGS => d[key].value = SecretPlaceholder

RECURSIVE SetSecretsReplaced(_, _)
\* every non-empty value under a secret key of ref is the placeholder in d
SetSecretsReplaced(ref, d) ==
    \A key \in DOMAIN ref :
        IF IsDict(ref[key])
        THEN key \in DOMAIN d /\ IsDict(d[key])
             /\ SetSecretsReplaced(ref[key].items, d[key].items)
        ELSE (key \in _SECRET_ARGS /\ ~PyNot(ref[key].value))
             => (key \in DOMAIN d /\ d[key].value = SecretPlaceholder)

RECURSIVE NonSecretUnchanged(_, _)
\* every other value of ref, special keys aside, is the same in d
NonSecretUnchanged(ref, d) ==
    \A key \in DOMAIN ref :
        IF IsDict(ref[key])
        THEN key \in DOMAIN d /\ IsDict(d[key])
             /\ NonSecretUnchanged(ref[key].items, d[key].items)
        ELSE (key \notin _SECRET_ARGS /\ ~StartsWithDunder(key))
             => (key \in DOMAIN d /\ d[key] = ref[key])

RECURSIVE WithoutSecrets(_)
\* a configuration, its values under secret keys left out
WithoutSecrets(d) ==
    [key \in {k \in DOMAIN d : IsDict(d[k]) \/ k \notin _SECRET_ARGS} |->
        IF IsDict(d[key]) THEN Dict(WithoutSecrets(d[key].items)) ELSE d[key]]

RECURSIVE SecretValues(_)
\* the values a configuration holds under secret keys
SecretValues(d) ==
    UNION {IF IsDict(d[key]) THEN SecretValues(d[key].items)
           ELSE IF key \in _SECRET_ARGS THEN {d[key].value} ELSE {} :
           key \in DOMAIN d}

DifferOnlyInSecret(c1, c2) == WithoutSecrets(c1) = WithoutSecrets(c2)
Logged(p) == out[p].trainer = "built"

PlotCalls(p) == Range(out[p].plot_calls)

\* C10: whenever one destination of process_plot raises, every other enabled
\* destination has been served by the call and the call returns without
\* raising.
PlotFanOutBestEffort ==
    \A p \in Procs : \A c \in PlotCalls(p) :
        /\ ~c.raised
        /\ (EnabledDestinations(out[p]) \ {c.failing}) \subseteq c.served

(***************************************************************************)
(* Properties of the failures of the remote trackers                       *)
(***************************************************************************)
\* The trackers that log_config has to serve
ConfigTrackers(o) == {TrackerOf(log) : log \in Range(o.manager.loggers)}
ConfigServed(o) ==
    (IF o.wandb_config # <<>> THEN {"wandb"} ELSE {})
        \cup (IF o.mlflow_params # <<>> THEN {"mlflow"} ELSE {})
HasError(log) == \E i \in 1..Len(log) : log[i].level = "ERROR"

\* C11: when the call of a remote tracker raises while the configuration is
\* logged, log_config does not raise, the failure is logged as an error, the
\* other trackers are served and the trainer is built, so that fit and test
\* can proceed.
ConfigFailureContained ==
    \A p \in Procs :
        (out[p].config_call.called /\ out[p].config_call.failing \in ConfigTrackers(out[p]))
        => /\ ~out[p].config_call.raised
           /\ HasError(out[p].console)
           /\ (ConfigTrackers(out[p]) \ {out[p].config_call.failing}) \subseteq ConfigServed(out[p])
           /\ out[p].trainer = "built"

(***************************************************************************)
(* Properties of the plots of the test results                             *)
(***************************************************************************)
TestPlots(p) == Range(out[p].test_plots)
PlottingErrorLogged(log) ==
    \E i \in 1..Len(log) :
        log[i].level = "ERROR"
        /\ log[i].text = "An error occurred while plotting the test results"

\* C12: an exception raised while the test plots are rendered or uploaded
\* never leaves plot_test_results: every call returns normally, the exception
\* is logged as an error, and the test loop ends.
PlotFailuresCaught ==
    \A p \in Procs :
        /\ \A c \in TestPlots(p) :
              /\ ~c.raised
              /\ c.caught => PlottingErrorLogged(out[p].console)
        /\ Len(out[p].test_plots) > 0 /\ metrics[p].stage = "none"
           => Len(out[p].test_plots) = Len(SelectSeq(metrics[p].epochs, LAMBDA e : e.stage = "test"))

\* A run where the W&B table raised after the figure was saved, and another
\* step raised in an earlier call or the rendering itself raised
PlotFailuresCaughtWitness ==
    /\ \E c \in TestPlots("p1") : c.caught /\ c.failing = "wandb_table"
    /\ \E c \in TestPlots("p1") : c.caught /\ c.failing \in {"render", "file", "wandb", "mlflow"}
    /\ metrics["p1"].stage = "none"

\* C13: is_plot_enabled() is true exactly when save_plots, show_plots or
\* upload_plots is; a call of plot_test_results made while it is false
\* computes no metric, renders no figure and nothing is saved or uploaded.
PlotsSkippedWhenDisabled ==
    \A p \in Procs :
        /\ out[p].manager.built
           => (is_plot_enabled(out[p])
               <=> ~(~out[p].manager.save_plots /\ ~out[p].manager.show_plots
                     /\ ~out[p].manager.upload_plots))
        /\ \A c \in TestPlots(p) :
              /\ c.enabled <=> (out[p].manager.save_plots \/ out[p].manager.show_plots
                                \/ out[p].manager.upload_plots)
              /\ ~c.enabled
                 => /\ c.cm_values = <<>> /\ c.acc_values = <<>> /\ c.figures = 0
                    /\ out[p].plot_calls = <<>> /\ out[p].files = {}
                    /\ out[p].wandb_plots = <<>> /\ out[p].mlflow_figures = <<>>
                    /\ out[p].wandb_tables = <<>>

\* A test ended with every plot option off and both trackers on, over a
\* confusion matrix that holds records
PlotsSkippedWhenDisabledWitness ==
    /\ \E c \in TestPlots("p1") : ~c.enabled
    /\ out["p1"].manager.enable_wandb /\ out["p1"].manager.enable_mlflow
    /\ \E s \in Samples : metrics["p1"].cm.confmat[s] > 0

\* C14: while upload_plots is false, nothing of the plots of the end of the
\* test reaches Weights & Biases or MLFlow.
NoUploadUnlessUploadPlots ==
    \A p \in Procs :
        ~out[p].manager.upload_plots
        => /\ out[p].wandb_plots = <<>>
           /\ out[p].wandb_tables = <<>>
           /\ out[p].mlflow_figures = <<>>

SameRatio(a, b) ==
    LET an == IF a.den = 0 THEN 0 ELSE a.num
        ad == IF a.den = 0 THEN 1 ELSE a.den
        bn == IF b.den = 0 THEN 0 ELSE b.num
        bd == IF b.den = 0 THEN 1 ELSE b.den
    IN  an * bd = bn * ad

RECURSIVE Flatten(_)
Flatten(batches) == IF batches = <<>> THEN <<>> ELSE Head(batches) \o Flatten(Tail(batches))

\* The accuracy and the normalised confusion matrix of the batches of one stage
AccuracyOver(batches) == Ratio(Cardinality({i \in 1..Len(Flatten(batches)) :
                                              Flatten(batches)[i][1] = Flatten(batches)[i][2]}),
                               Len(Flatten(batches)))
MatrixOver(batches) ==
    [c \in Samples |->
        Ratio(Cardinality({i \in 1..Len(Flatten(batches)) : Flatten(batches)[i] = c}),
              Cardinality({i \in 1..Len(Flatten(batches)) : Flatten(batches)[i][1] = c[1]}))]

TestEpochs(p) == SelectSeq(metrics[p].epochs, LAMBDA e : e.stage = "test")

\* C15: every value computed at the end of a stage is reduced over the
\* batches of that stage only: the accuracy logged at the end of each epoch,
\* and the confusion matrix and the accuracy read by on_test_end at the end
\* of each test run.
MetricsOverStageOnly ==
    \A p \in Procs :
        /\ \A i \in 1..Len(metrics[p].epochs) :
              SameRatio(metrics[p].epochs[i].acc, AccuracyOver(metrics[p].epochs[i].batches))
        /\ \A i \in 1..Len(out[p].test_plots) :
              LET c == out[p].test_plots[i]
                  e == TestEpochs(p)[i]
              IN  /\ \A k \in 1..Len(c.acc_values) :
                        SameRatio(c.acc_values[k], AccuracyOver(e.batches))
                  /\ \A k \in 1..Len(c.cm_values) : \A s \in Samples :
                        SameRatio(c.cm_values[k][s], MatrixOver(e.batches)[s])

(***************************************************************************)
(* Properties of run()                                                     *)
(***************************************************************************)
\* C17: in run() the test is executed once and only on a model that was
\* obtained: without load path the trainer has fitted the model it tests, with
\* a load path fit is never called and the model tested is the one loaded from
\* the file.  A run ends without a test only by an exception.
TestOnceOnObtainedModel ==
    \A p \in Procs :
        /\ history[p].tests <= 1 /\ history[p].fits <= 1
        /\ history[p].tests = 1 <=> pc[p] = "tested"
        /\ pc[p] \in {"ready", "tested"} => model[p].origin \in {"fit", "file"}
        /\ pc[p] \notin {"tested", "crashed"} => history[p].tests = 0
        /\ load_model_path[p] # NoPath => history[p].fits = 0
        /\ pc[p] = "tested"
           => IF load_model_path[p] = NoPath
              THEN history[p].fits = 1 /\ history[p].tested = "fit"
              ELSE history[p].fits = 0 /\ history[p].tested = "file"

\* A run that fitted and tested, and a run that loaded the checkpoint of the
\* first and tested
TestOnceOnObtainedModelWitness ==
    /\ pc["p1"] = "tested" /\ history["p1"].tested = "fit"
    /\ pc["p2"] = "tested" /\ history["p2"].tested = "file"
    /\ load_model_path["p2"] = CkptPath
    /\ dataset_len > 0

\* C18: the split seed is the draw of the global `random` state at the
\* construction of the data module and of nothing else; two runs that
\* construct it in the same state of `random` hold the same split seed, store
\* the same subsets, fit on the same records and test on the same records.
SameSeedSameSplit ==
    \A p \in Procs :
        /\ pc[p] # "start"
           => dm[p]._split_seed = randint(history[p].random_at_init, 0, MaxSplitSeed)
        /\ \A q \in Procs :
              (pc[p] # "start" /\ pc[q] # "start"
                  /\ history[p].random_at_init = history[q].random_at_init)
              => /\ dm[p]._split_seed = dm[q]._split_seed
                 /\ \A f \in {"_dataset_train", "_dataset_val", "_dataset_test"} :
                       (dm[p][f].isset /\ dm[q][f].isset) => dm[p][f] = dm[q][f]
                 /\ (model[p].origin = "fit" /\ model[q].origin = "fit")
                    => model[p].trained_on = model[q].trained_on
                 /\ (history[p].tests = 1 /\ history[q].tests = 1)
                    => test_run[p].indices = test_run[q].indices

\* Two runs seeded alike that fitted and tested on records, the seed being
\* one whose draw is not the constant 0
SameSeedSameSplitWitness ==
    /\ history["p1"].random_at_init = history["p2"].random_at_init
    /\ history["p1"].tested = "fit" /\ history["p2"].tested = "fit"
    /\ dm["p1"]._split_seed # 0
    /\ test_run["p1"].indices # {}

\* The text holds nothing but white space
Blank(text) == \A i \in 1..Len(text) : text[i] \in WhiteSpace

\* C20: a load path that is neither None nor blank and names no file makes
\* the construction raise, before any fit or test; None and blank paths give
\* a trainer whose load_model_path is None; a trainer that was built holds
\* None or the path of an existing file.
LoadPathChecked ==
    /\ [](\A p \in Procs :
             /\ pc[p] \in {"built", "ready", "tested"}
                => (load_model_path[p] = NoPath \/ is_file(load_model_path[p], checkpoint))
             /\ (pc[p] = "crashed" /\ history[p].fits = 0)
                => (history[p].tests = 0 /\ model[p].origin = "init"))
    /\ [][\A p \in Procs : \A path \in LoadPaths :
             Construct(p, path)
             => LET named == ~path.none /\ ~Blank(path.text)
                    found == path = CkptPath /\ checkpoint.exists
                IN  /\ (named /\ ~found)
                       => (pc'[p] = "crashed" /\ history'[p].fits = 0 /\ history'[p].tests = 0)
                    /\ ~named => (pc'[p] = "built" /\ load_model_path'[p] = NoPath)
                    /\ (named /\ found)
                       => (pc'[p] = "built" /\ load_model_path'[p] = path)]_vars

\* A construction that raised on a missing file while the other run, built
\* on a blank path, has fitted
LoadPathCheckedWitness ==
    /\ pc["p1"] = "crashed" /\ history["p1"].fits = 0
    /\ pc["p2"] \in {"ready", "tested"} /\ history["p2"].fits = 1

(***************************************************************************)
(* Properties of the split of an empty dataset                             *)
(***************************************************************************)
\* C19: the split of a dataset of 0 records is refused: no subset is stored
\* in the data module, whatever the stage setup was called with.
EmptyDatasetStoresNothing ==
    dataset_len = 0
    => \A p \in Procs :
          /\ ~dm[p]._dataset_train.isset
          /\ ~dm[p]._dataset_val.isset
          /\ ~dm[p]._dataset_test.isset

(***************************************************************************)
(* Properties of the model                                                 *)
(***************************************************************************)
\* C21: every classifier that was built holds a loss function, and no step
\* of a fit raises for calling an undefined one.
LossFnAlwaysDefined ==
    \A p \in Procs :
        /\ pc[p] # "start" => metrics[p].loss_fn # NoValue
        /\ ~metrics[p].error

(***************************************************************************)
(* Properties of prepare_data and setup                                    *)
(***************************************************************************)
\* C22: prepare_data leaves the data module as it was: the three stored
\* subsets, the split seed, the batch size and the number of workers.
PrepareDataKeepsState ==
    [][\A p \in Procs :
          PrepareData(p)
          => /\ dm'[p]._dataset_train = dm[p]._dataset_train
             /\ dm'[p]._dataset_val = dm[p]._dataset_val
             /\ dm'[p]._dataset_test = dm[p]._dataset_test
             /\ dm'[p]._split_seed = dm[p]._split_seed
             /\ dm'[p].batch_size = dm[p].batch_size
             /\ dm'[p]._nb_workers = dm[p]._nb_workers]_vars

\* prepare_data was called on a data module that holds no subset, on a
\* dataset with records
PrepareDataKeepsStateWitness ==
    /\ history["p1"].prepared
    /\ dataset_len > 0
    /\ ~dm["p1"]._dataset_train.isset

\* C23: on a dataset of at least 10 records, setup('fit') leaves the train
\* and validation subsets set and non-empty and setup('test') the test
\* subset, so that each dataloader yields at least one batch.
SubsetsNonEmptyFromTen ==
    [][\A p \in Procs : \A cpus \in 1..MaxCpu :
          dataset_len >= 10
          => /\ Setup(p, "fit", cpus)
                => /\ dm'[p]._dataset_train.isset /\ dm'[p]._dataset_val.isset
                   /\ Len(dm'[p]._dataset_train.indices) > 0
                   /\ Len(dm'[p]._dataset_val.indices) > 0
                   /\ DataLoaderLen(dm'[p]._dataset_train, dm'[p].batch_size) > 0
                   /\ DataLoaderLen(dm'[p]._dataset_val, dm'[p].batch_size) > 0
             /\ Setup(p, "test", cpus)
                => /\ dm'[p]._dataset_test.isset
                   /\ Len(dm'[p]._dataset_test.indices) > 0
                   /\ DataLoaderLen(dm'[p]._dataset_test, dm'[p].batch_size) > 0]_vars

\* prepare_data, setup('fit') and setup('test') were called on a dataset of
\* 10 records, whose validation subset holds one record
SubsetsNonEmptyFromTenWitness ==
    /\ dataset_len = 10
    /\ history["p1"].prepared
    /\ dm["p1"]._dataset_train.isset /\ dm["p1"]._dataset_test.isset
    /\ Len(dm["p1"]._dataset_val.indices) = 1

\* C24: setup('fit') leaves the stored test subset as it was, setup('test')
\* the train and validation subsets, and setup with another stage the three
\* of them; 'fit' assigns the train and validation subsets of a dataset with
\* records and 'test' the test subset.
SetupAssignsItsStageOnly ==
    [][\A p \in Procs : \A stage \in Stages : \A cpus \in 1..MaxCpu :
          Setup(p, stage, cpus)
          => /\ stage = "fit"
                => /\ dm'[p]._dataset_test = dm[p]._dataset_test
                   /\ dataset_len > 0
                      => (dm'[p]._dataset_train.isset /\ dm'[p]._dataset_val.isset)
             /\ stage = "test"
                => /\ dm'[p]._dataset_train = dm[p]._dataset_train
                   /\ dm'[p]._dataset_val = dm[p]._dataset_val
                   /\ dm'[p]._dataset_test.isset
             /\ stage \notin {"fit", "test"}
                => /\ dm'[p]._dataset_train = dm[p]._dataset_train
                   /\ dm'[p]._dataset_val = dm[p]._dataset_val
                   /\ dm'[p]._dataset_test = dm[p]._dataset_test]_vars

\* setup('fit') was called and setup('test') was not: the train and
\* validation subsets hold records, the test subset is None
SetupAssignsItsStageOnlyWitness ==
    /\ dm["p1"]._dataset_train.isset /\ dm["p1"]._dataset_val.isset
    /\ ~dm["p1"]._dataset_test.isset
    /\ Len(dm["p1"]._dataset_val.indices) > 0

(***************************************************************************)
(* Properties of get_config_dict                                           *)
(***************************************************************************)
RECURSIVE Redacted(_)
\* The configuration without its special keys and with the placeholder in
\* place of every secret that is set, at every depth
Redacted(d) ==
    [key \in {k \in DOMAIN d : k \notin {"__path__", "__default_config__"}} |->
        IF IsDict(d[key]) THEN Dict(Redacted(d[key].items))
        ELSE IF key = "wandb_api_key" /\ d[key].value \notin {NoValue, ""}
        THEN Leaf("<secret>")
        ELSE d[key]]

\* C25: the dictionary that get_config_dict returns, which log_config hands
\* to every destination, is the configuration with the set secrets replaced,
\* the special keys removed and every other key unchanged, at every depth;
\* the configuration itself stays as it was.
ConfigDictIsRedactedCopy ==
    /\ [](\A p \in Procs :
             /\ get_config_dict(cli_config[p]) = Redacted(cli_config[p])
             /\ \A d \in AllConfigRecords(out[p]) : d = Redacted(cli_config[p]))
    /\ [][cli_config' = cli_config]_vars

\* A configuration read from files, with a set API key and a nested group,
\* was logged
ConfigDictIsRedactedCopyWitness ==
    /\ Logged("p1")
    /\ ConfigsOf(out["p1"].run_log) # <<>>
    /\ "__path__" \in DOMAIN cli_config["p1"]
    /\ "__path__" \in DOMAIN cli_config["p1"].trainer.items
    /\ cli_config["p1"].output.items.wandb_api_key.value = "secret123"
    /\ cli_config["p1"].model.items.init_args.items.num_hidden.value = 256

(***************************************************************************)
(* Properties of process_plot                                              *)
(***************************************************************************)
\* C26: every call of process_plot releases its figure, closed or shown as
\* show_plots tells, on every path out of the call, and after every enabled
\* destination has consumed it.
FigureAlwaysReleased ==
    \A p \in Procs : \A c \in PlotCalls(p) :
        /\ c.fig = (IF out[p].manager.show_plots THEN "shown" ELSE "closed")
        /\ EnabledDestinations(out[p]) \subseteq c.served

\* The leading parts of a path
IsPrefix(a, b) == Len(a) <= Len(b) /\ SubSeq(b, 1, Len(a)) = a

\* C27: every plot saved by process_plot lies inside out/<run_name>, the
\* directory of run.log, whatever the name of the run.
PlotsSavedInRunDirectory ==
    \A p \in Procs : \A f \in out[p].files : IsPrefix(OutDir(out[p]), f.parts)

\* C28: a call of process_plot that returns hands back a path exactly when
\* save_plots is true, a file is written only then, under the cleaned name
\* and with the extension svg when image_latex_format is true and png
\* otherwise; a cleaned name holds no white space, slash or backslash and
\* cleaning it again leaves it as it is.
PlotPathIffSaved ==
    \A p \in Procs :
        /\ out[p].files # {} => out[p].manager.save_plots
        /\ \A f \in out[p].files :
              f.ext = (IF out[p].manager.image_latex_format THEN "svg" ELSE "png")
        /\ \A c \in PlotCalls(p) :
              /\ ~c.raised => (c.value # <<>> <=> out[p].manager.save_plots)
              /\ c.value # <<>>
                 => /\ c.value[1] \in out[p].files
                    /\ c.value[1].name = c.file_name
              /\ \A i \in 1..Len(c.file_name) :
                    c.file_name[i] \notin {" ", "\t", "\n", "/", "\\"}
              /\ CleanFileName(c.file_name) = c.file_name

\* A call returned the path of an svg file whose name was given as
\* " a /b\ ", with spaces, a slash and a backslash
PlotPathIffSavedWitness ==
    \E c \in PlotCalls("p1") :
        /\ ~c.raised /\ c.value # <<>>
        /\ c.value[1].ext = "svg"
        /\ c.file_name = <<"a", "_", "b", "_">>

(***************************************************************************)
(* Properties of evaluate                                                  *)
(***************************************************************************)
\* The number of times a sample occurs in a batch
Occurrences(batch, sample) == Cardinality({i \in 1..Len(batch) : batch[i] = sample})

\* C29: evaluate adds a batch to the confusion matrix in the stage 'test'
\* and in no other; a validation batch, a training step and a call without
\* stage leave the matrix as it is; the metric collection takes in every
\* batch evaluated with a stage.
EvaluateUpdatesByStage ==
    \A p \in Procs : \A batch \in Batches :
        LET m == metrics[p]
        IN  /\ evaluate(m, batch, "val").cm = m.cm
            /\ evaluate(m, batch, "train").cm = m.cm
            /\ evaluate(m, batch, "None") = m
            /\ training_step(m, batch).cm = m.cm
            /\ training_step(m, batch).acc = m.acc
            /\ \A sample \in Samples :
                  evaluate(m, batch, "test").cm.confmat[sample]
                      = m.cm.confmat[sample] + Occurrences(batch, sample)
            /\ \A stage \in {"train", "val", "test"} :
                  /\ evaluate(m, batch, stage).acc.total = m.acc.total + Len(batch)
                  /\ evaluate(m, batch, stage).acc.correct
                        = m.acc.correct + Cardinality({i \in 1..Len(batch) :
                                                          batch[i][1] = batch[i][2]})

\* A validation loop has run after a test on the same model, and the matrix
\* holds the two records of the test only
EvaluateUpdatesByStageWitness ==
    /\ Len(metrics["p1"].epochs) = 2
    /\ metrics["p1"].epochs[1].stage = "test"
    /\ metrics["p1"].epochs[2].stage = "val"
    /\ SumSeq([i \in 1..4 |-> metrics["p1"].cm.confmat[<<(i - 1) \div 2, (i - 1) % 2>>]]) = 2

(***************************************************************************)
(* Properties of the split with explicit lengths                           *)
(***************************************************************************)
\* C30: on every dataset of at least one record the explicit lengths sum to
\* the size of the dataset: setup never fails, and the subsets it stores hold
\* every record exactly once.
ExplicitLengthsCoverDataset ==
    dataset_len >= 1
    => \A p \in Procs :
          /\ pc[p] # "crashed"
          /\ (pc[p] = "built" /\ dm[p].dataset.isset)
             => LET train == dm[p].dataset_train.indices
                    test == dm[p].dataset_test.indices
                    val == dm[p].dataset_val.indices
                IN  /\ Len(train) + Len(test) + Len(val) = dataset_len
                    /\ Range(train) \cup Range(test) \cup Range(val) = 0..(dataset_len - 1)
====
